---- MODULE Spec2Model ----
(***************************************************************************)
(* The WAQI configuration wizard (custom_components/waqi-test/             *)
(* config_flow.py) as a state machine.  Each wizard session is one         *)
(* ConfigFlow instance; a step handler is split into one action per        *)
(* stretch of code between two awaits.  Python dicts are functions from    *)
(* strings; a missing key is a key outside the DOMAIN.                     *)
(*                                                                         *)
(* The error-redisplay schema of async_step_user_search (lines 99-114)     *)
(* carries two stray closing parentheses; it is read here by its keys and  *)
(* default= arguments as they are written (token, keyword and interval     *)
(* each default to the submitted value).                                   *)
(***************************************************************************)
EXTENDS Integers, Sequences, FiniteSets, TLC

VARIABLES entries, self, context, cur_step, result, pc, user_input, submitted, call,
          ok_calls, options_flow

vars == <<entries, self, context, cur_step, result, pc, user_input, submitted, call,
          ok_calls, options_flow>>

----------------------------------------------------------------------------
(* const.py and the module-level names of config_flow.py *)

CONF_API_TOKEN == "api_token"
CONF_KEYWORD == "keyword"
CONF_STATION == "station"
CONF_UPDATE_INTERVAL == "update_interval"
DEFAULT_UPDATE_INTERVAL == 900
FLOW_FEED == "Enter the station ID"
FLOW_SEARCH == "Find stations from an area/city name"
FLOW_TYPE == "flow_type"

----------------------------------------------------------------------------
(* Bounds and the small sets the inputs are drawn from *)

MaxFound == 2

Sessions == {"s1", "s2"}
OneSession == {"s1"}
Tokens == {"T1", "T2"}
OneToken == {"T1"}
Keywords == {"paris"}
Intervals == {600, DEFAULT_UPDATE_INTERVAL}
NoInterval == {}
StationIds == {"A1", "5000"}
Names == {"Paris Center", "Paris Nord"}
OneName == {"Paris Center"}
FlowChoices == {FLOW_SEARCH, FLOW_FEED, "other"}

----------------------------------------------------------------------------
(* Python dict helpers *)

EmptyDict == [k \in {} |-> k]

Put(d, k, v) == [y \in (DOMAIN d) \cup {k} |-> IF y = k THEN v ELSE d[y]]

----------------------------------------------------------------------------
(* Step results *)

Form(step_id, defaults, choices, errors) ==
    [type |-> "form", step_id |-> step_id, defaults |-> defaults,
     choices |-> choices, errors |-> errors]

Abort(reason) == [type |-> "abort", reason |-> reason]

Raised(exc) == [type |-> "exception", exc |-> exc]

InvalidData == [type |-> "invalid_data"]

NoResult == [type |-> "none"]

CreateEntry(title, data, options) ==
    [type |-> "create_entry", title |-> title, data |-> data, options |-> options]

NoCall == [kind |-> "none"]

CONFIG_SCHEMA ==
    Form("user", Put(EmptyDict, FLOW_TYPE, FLOW_SEARCH),
         Put(Put(EmptyDict, FLOW_SEARCH, FLOW_SEARCH), FLOW_FEED, FLOW_FEED),
         EmptyDict)

SearchForm ==
    Form("user_search", Put(EmptyDict, CONF_UPDATE_INTERVAL, DEFAULT_UPDATE_INTERVAL),
         EmptyDict, EmptyDict)

FeedForm ==
    Form("user_feed", Put(EmptyDict, CONF_UPDATE_INTERVAL, DEFAULT_UPDATE_INTERVAL),
         EmptyDict, EmptyDict)

PickForm(stations) == Form("pick_station", EmptyDict, stations, EmptyDict)

(* voluptuous: a key the user left out takes the default of the shown form *)
ApplyDefaults(form, raw) ==
    [k \in (DOMAIN raw) \cup (DOMAIN form.defaults) |->
        IF k \in DOMAIN raw THEN raw[k] ELSE form.defaults[k]]

----------------------------------------------------------------------------

(* no options flow is open *)
NoOptionsFlow ==
    [config_entry |-> 0, form |-> NoResult, result |-> NoResult, submitted |-> EmptyDict]

Idle(s) == pc[s] = "idle"

Finished(s) == result[s].type \in {"abort", "create_entry"}

InStep(s, step_id) ==
    /\ Idle(s)
    /\ ~Finished(s)
    /\ cur_step[s].type = "form"
    /\ cur_step[s].step_id = step_id

Init ==
    /\ entries = <<>>
    /\ self = [s \in Sessions |-> EmptyDict]
    /\ context = [s \in Sessions |-> EmptyDict]
    /\ cur_step = [s \in Sessions |-> NoResult]
    /\ result = [s \in Sessions |-> NoResult]
    /\ pc = [s \in Sessions |-> "idle"]
    /\ user_input = [s \in Sessions |-> EmptyDict]
    /\ submitted = [s \in Sessions |-> EmptyDict]
    /\ call = [s \in Sessions |-> NoCall]
    /\ ok_calls = [s \in Sessions |-> {}]
    /\ options_flow = NoOptionsFlow

Show(s, form) ==
    /\ result' = [result EXCEPT ![s] = form]
    /\ cur_step' = [cur_step EXCEPT ![s] = form]

Finish(s, res) ==
    /\ result' = [result EXCEPT ![s] = res]
    /\ UNCHANGED cur_step

(* async_step_user(None): the flow is started and the Entry form is shown *)
StartFlow(s) ==
    /\ Idle(s)
    /\ result[s].type = "none"
    /\ Show(s, CONFIG_SCHEMA)
    /\ UNCHANGED <<entries, self, context, pc, user_input, submitted, call>>
    /\ UNCHANGED <<ok_calls, options_flow>>

StepUser_Swapped(s, raw) ==
    /\ InStep(s, "user")
    /\ LET data == ApplyDefaults(cur_step[s], raw) IN
       /\ submitted' = [submitted EXCEPT ![s] = raw]
       /\ IF data[FLOW_TYPE] \notin DOMAIN cur_step[s].choices
          THEN /\ Finish(s, InvalidData)
               /\ UNCHANGED user_input
          ELSE /\ user_input' = [user_input EXCEPT ![s] = data]
               /\ IF data[FLOW_TYPE] = FLOW_SEARCH
                  THEN Show(s, FeedForm)
                  ELSE Show(s, SearchForm)
    /\ UNCHANGED <<entries, self, context, pc, call>>
    /\ UNCHANGED <<ok_calls, options_flow>>

(* async_step_user(user_input) *)
StepUser(s, raw) ==
    /\ InStep(s, "user")
    /\ LET data == ApplyDefaults(cur_step[s], raw) IN
       /\ submitted' = [submitted EXCEPT ![s] = raw]
       /\ IF data[FLOW_TYPE] \notin DOMAIN cur_step[s].choices
          THEN /\ Finish(s, InvalidData)
               /\ UNCHANGED user_input
          ELSE /\ user_input' = [user_input EXCEPT ![s] = data]
               /\ IF data[FLOW_TYPE] = FLOW_SEARCH
                  THEN Show(s, SearchForm)
                  ELSE IF data[FLOW_TYPE] = FLOW_FEED
                       THEN Show(s, FeedForm)
                       ELSE Show(s, CONFIG_SCHEMA)
    /\ UNCHANGED <<entries, self, context, pc, call>>
    /\ UNCHANGED <<ok_calls, options_flow>>

----------------------------------------------------------------------------
(* async_step_user_search *)

(* history: the tokens with which a client call of the session returned a
   non-empty result *)
OkCalls(ok, c, ui) ==
    IF /\ c.kind = "return"
       /\ (("found" \in DOMAIN c /\ c.found # <<>>)
            \/ ("station" \in DOMAIN c /\ c.station # EmptyDict))
    THEN ok \cup {ui[CONF_API_TOKEN]}
    ELSE ok

StationRec(uid, name) == [uid |-> uid, station |-> [name |-> name]]

(* the values client.search can return: sequences of at most n stations *)
FoundSeqs(names, n) ==
    UNION {[1..m -> {StationRec(u, nm) : u \in StationIds, nm \in names}] : m \in 0..n}

SearchOutcomes(names, n) ==
    {[kind |-> "OverQuota"], [kind |-> "InvalidToken"], [kind |-> "Exception"]}
        \cup {[kind |-> "return", found |-> f] : f \in FoundSeqs(names, n)}

SearchErrors_NoEmptyCheck(c) ==
    IF c.kind = "OverQuota" THEN Put(EmptyDict, CONF_API_TOKEN, "api_over_quota")
    ELSE IF c.kind = "InvalidToken" THEN Put(EmptyDict, CONF_API_TOKEN, "api_token_invalid")
    ELSE EmptyDict

(* the errors dict at line 95, for the outcomes that reach it *)
SearchErrors(c) ==
    IF c.kind = "OverQuota" THEN Put(EmptyDict, CONF_API_TOKEN, "api_over_quota")
    ELSE IF c.kind = "InvalidToken" THEN Put(EmptyDict, CONF_API_TOKEN, "api_token_invalid")
    ELSE IF c.kind = "return" /\ c.found = <<>>
         THEN Put(EmptyDict, CONF_KEYWORD, "no_matching_stations_found")
    ELSE EmptyDict

(* except Exception: errors[CONF_BASE] = "unknown" -- CONF_BASE is neither
   imported from .const nor defined, so the handler itself raises NameError *)
SearchRaises(c) == c.kind = "Exception"

SearchErrorForm_Blank(ui, errors) ==
    Form("user_search", Put(EmptyDict, CONF_UPDATE_INTERVAL, DEFAULT_UPDATE_INTERVAL),
         EmptyDict, errors)

SearchErrorForm(ui, errors) ==
    Form("user_search",
         Put(Put(Put(EmptyDict, CONF_API_TOKEN, ui[CONF_API_TOKEN]),
                 CONF_KEYWORD, ui[CONF_KEYWORD]),
             CONF_UPDATE_INTERVAL, ui[CONF_UPDATE_INTERVAL]),
         EmptyDict, errors)

(* self._stations = {}; for station in found: self._stations[uid] = name *)
RECURSIVE StationsLoop(_, _)
StationsLoop(found, n) ==
    IF n = 0 THEN EmptyDict
    ELSE Put(StationsLoop(found, n - 1), found[n].uid, found[n].station.name)

BuildStations_FirstWins(found) ==
    [u \in {found[i].uid : i \in DOMAIN found} |->
        found[CHOOSE i \in DOMAIN found :
                 found[i].uid = u /\ \A j \in 1..(i - 1) : found[j].uid # u].station.name]

BuildStations(found) == StationsLoop(found, Len(found))

SearchRaws(tokens, intervals) ==
    {Put(Put(EmptyDict, CONF_API_TOKEN, t), CONF_KEYWORD, k) :
        t \in tokens, k \in Keywords}
    \cup {Put(Put(Put(EmptyDict, CONF_API_TOKEN, t), CONF_KEYWORD, k),
              CONF_UPDATE_INTERVAL, i) :
        t \in tokens, k \in Keywords, i \in intervals}

(* the form is submitted; the handler runs up to `await client.search` *)
SubmitSearch(s, raw) ==
    /\ InStep(s, "user_search")
    /\ submitted' = [submitted EXCEPT ![s] = raw]
    /\ user_input' = [user_input EXCEPT ![s] = ApplyDefaults(cur_step[s], raw)]
    /\ call' = [call EXCEPT ![s] = NoCall]
    /\ pc' = [pc EXCEPT ![s] = "search"]
    /\ UNCHANGED <<entries, self, context, cur_step, result>>
    /\ UNCHANGED <<ok_calls, options_flow>>

SearchReturn_WritesEarly(s, c) ==
    /\ pc[s] = "search"
    /\ call' = [call EXCEPT ![s] = c]
    /\ pc' = [pc EXCEPT ![s] = "idle"]
    /\ IF SearchRaises(c)
       THEN /\ Finish(s, Raised("NameError"))
            /\ UNCHANGED self
       ELSE LET stations == IF c.kind = "return" THEN BuildStations(c.found) ELSE EmptyDict IN
            /\ self' = [self EXCEPT ![s] =
                   [_stations |-> stations,
                    _api_token |-> user_input[s][CONF_API_TOKEN],
                    _update_interval |-> user_input[s][CONF_UPDATE_INTERVAL]]]
            /\ IF SearchErrors(c) # EmptyDict
               THEN Show(s, SearchErrorForm(user_input[s], SearchErrors(c)))
               ELSE Show(s, PickForm(stations))
    /\ ok_calls' = [ok_calls EXCEPT ![s] = OkCalls(ok_calls[s], c, user_input[s])]
    /\ UNCHANGED <<entries, context, user_input, submitted, options_flow>>

(* client.search completes with outcome c; the handler runs to its return,
   through async_step_pick_station(None) on the success path *)
SearchReturn(s, c) ==
    /\ pc[s] = "search"
    /\ call' = [call EXCEPT ![s] = c]
    /\ pc' = [pc EXCEPT ![s] = "idle"]
    /\ IF SearchRaises(c)
       THEN /\ Finish(s, Raised("NameError"))
            /\ UNCHANGED self
       ELSE IF SearchErrors(c) # EmptyDict
       THEN /\ Show(s, SearchErrorForm(user_input[s], SearchErrors(c)))
            /\ UNCHANGED self
       ELSE LET stations == BuildStations(c.found) IN
            /\ self' = [self EXCEPT ![s] =
                   [_stations |-> stations,
                    _api_token |-> user_input[s][CONF_API_TOKEN],
                    _update_interval |-> user_input[s][CONF_UPDATE_INTERVAL]]]
            /\ Show(s, PickForm(stations))
    /\ ok_calls' = [ok_calls EXCEPT ![s] = OkCalls(ok_calls[s], c, user_input[s])]
    /\ UNCHANGED <<entries, context, user_input, submitted, options_flow>>

----------------------------------------------------------------------------
(* async_step_pick_station *)

UniqueIdConfigured_ByTitle(uid, ents) == \E i \in DOMAIN ents : ents[i].title = uid

UniqueIdConfigured_Never(uid, ents) == FALSE

(* _abort_if_unique_id_configured: an entry with this unique id exists *)
UniqueIdConfigured(uid, ents) == \E i \in DOMAIN ents : ents[i].unique_id = uid

ConfigEntry(uid, res) ==
    [unique_id |-> uid, title |-> res.title, data |-> res.data, options |-> res.options]

PickEntry_TitleIsId(me, unique_id) ==
    CreateEntry(unique_id, EmptyDict,
                Put(Put(EmptyDict, CONF_API_TOKEN, me._api_token),
                    CONF_UPDATE_INTERVAL, me._update_interval))

PickEntry(me, unique_id) ==
    CreateEntry(me._stations[unique_id], EmptyDict,
                Put(Put(EmptyDict, CONF_API_TOKEN, me._api_token),
                    CONF_UPDATE_INTERVAL, me._update_interval))

(* the selection is submitted; the handler runs up to
   `await self.async_set_unique_id` *)
SubmitPick(s, u) ==
    /\ InStep(s, "pick_station")
    /\ submitted' = [submitted EXCEPT ![s] = Put(EmptyDict, CONF_STATION, u)]
    /\ call' = [call EXCEPT ![s] = NoCall]
    /\ IF u \notin DOMAIN cur_step[s].choices
       THEN /\ Finish(s, InvalidData)
            /\ UNCHANGED <<user_input, pc>>
       ELSE /\ user_input' = [user_input EXCEPT ![s] = Put(EmptyDict, CONF_STATION, u)]
            /\ pc' = [pc EXCEPT ![s] = "pick_uid"]
            /\ UNCHANGED <<result, cur_step>>
    /\ UNCHANGED <<entries, self, context>>
    /\ UNCHANGED <<ok_calls, options_flow>>

(* async_set_unique_id completes; the abort check and the entry creation
   follow without another await *)
PickResume(s) ==
    /\ pc[s] = "pick_uid"
    /\ pc' = [pc EXCEPT ![s] = "idle"]
    /\ LET unique_id == user_input[s][CONF_STATION] IN
       /\ context' = [context EXCEPT ![s] = [unique_id |-> unique_id]]
       /\ IF UniqueIdConfigured(unique_id, entries)
          THEN /\ Finish(s, Abort("already_configured"))
               /\ UNCHANGED entries
          ELSE /\ Finish(s, PickEntry(self[s], unique_id))
               /\ entries' = Append(entries, ConfigEntry(unique_id, PickEntry(self[s], unique_id)))
    /\ UNCHANGED <<self, user_input, submitted, call>>
    /\ UNCHANGED <<ok_calls, options_flow>>

----------------------------------------------------------------------------
(* async_step_user_feed *)

Feed(uid) == [uid |-> uid]

FeedOutcomes ==
    {[kind |-> "OverQuota"], [kind |-> "InvalidToken"], [kind |-> "Exception"],
     [kind |-> "return", station |-> EmptyDict]}
        \cup {[kind |-> "return", station |-> Feed(u)] : u \in StationIds}

(* the errors dict when the try statement is left without a return *)
FeedErrors(c) ==
    IF c.kind = "OverQuota" THEN Put(EmptyDict, CONF_API_TOKEN, "api_over_quota")
    ELSE IF c.kind = "InvalidToken" THEN Put(EmptyDict, CONF_API_TOKEN, "api_token_invalid")
    ELSE IF c.kind = "return" /\ c.station = EmptyDict
         THEN Put(EmptyDict, CONF_STATION, "no_station_feed_found")
    ELSE EmptyDict

FeedExcept_Redisplay(c) ==
    Form("user_feed", Put(EmptyDict, CONF_UPDATE_INTERVAL, DEFAULT_UPDATE_INTERVAL),
         EmptyDict, Put(EmptyDict, "base", "unknown"))

(* the bare except clause *)
FeedExcept(c) == Abort("unknown")

(* the else clause runs whenever the try body raised nothing *)
FeedElse(c) == c.kind = "return"

FeedEntry_NoFeedNeeded(c, ui) ==
    IF c.kind # "return" THEN Raised("UnboundLocalError")
    ELSE CreateEntry(ui[CONF_STATION], EmptyDict,
                     Put(Put(EmptyDict, CONF_API_TOKEN, ui[CONF_API_TOKEN]),
                         CONF_UPDATE_INTERVAL, ui[CONF_UPDATE_INTERVAL]))

FeedEntry_TitleFromInput(c, ui) ==
    IF c.kind # "return" THEN Raised("UnboundLocalError")
    ELSE IF "uid" \notin DOMAIN c.station THEN Raised("KeyError")
    ELSE CreateEntry(ui[CONF_STATION], EmptyDict,
                     Put(Put(EmptyDict, CONF_API_TOKEN, ui[CONF_API_TOKEN]),
                         CONF_UPDATE_INTERVAL, ui[CONF_UPDATE_INTERVAL]))

(* return self.async_create_entry(title=station["uid"], ...) is reached on
   every path that did not return or abort: `station` is unbound after
   OverQuota / InvalidToken, and an empty feed has no "uid" *)
FeedEntry(c, ui) ==
    IF c.kind # "return" THEN Raised("UnboundLocalError")
    ELSE IF "uid" \notin DOMAIN c.station THEN Raised("KeyError")
    ELSE CreateEntry(c.station.uid, EmptyDict,
                     Put(Put(EmptyDict, CONF_API_TOKEN, ui[CONF_API_TOKEN]),
                         CONF_UPDATE_INTERVAL, ui[CONF_UPDATE_INTERVAL]))

FeedRaws(tokens, intervals) ==
    {Put(Put(EmptyDict, CONF_API_TOKEN, t), CONF_STATION, u) :
        t \in tokens, u \in StationIds}
    \cup {Put(Put(Put(EmptyDict, CONF_API_TOKEN, t), CONF_STATION, u),
              CONF_UPDATE_INTERVAL, i) :
        t \in tokens, u \in StationIds, i \in intervals}

(* the form is submitted; the handler runs up to `await client.feed` *)
SubmitFeed(s, raw) ==
    /\ InStep(s, "user_feed")
    /\ submitted' = [submitted EXCEPT ![s] = raw]
    /\ user_input' = [user_input EXCEPT ![s] = ApplyDefaults(cur_step[s], raw)]
    /\ call' = [call EXCEPT ![s] = NoCall]
    /\ pc' = [pc EXCEPT ![s] = "feed"]
    /\ UNCHANGED <<entries, self, context, cur_step, result>>
    /\ UNCHANGED <<ok_calls, options_flow>>

(* client.feed completes with outcome c; the handler runs to its return or
   to `await self.async_set_unique_id` in the else clause *)
FeedReturn(s, c) ==
    /\ pc[s] = "feed"
    /\ call' = [call EXCEPT ![s] = c]
    /\ IF FeedElse(c)
       THEN /\ pc' = [pc EXCEPT ![s] = "feed_uid"]
            /\ UNCHANGED <<result, cur_step>>
       ELSE /\ pc' = [pc EXCEPT ![s] = "idle"]
            /\ IF c.kind \in {"OverQuota", "InvalidToken"}
               THEN Finish(s, FeedEntry(c, user_input[s]))
               ELSE Finish(s, FeedExcept(c))
    /\ ok_calls' = [ok_calls EXCEPT ![s] = OkCalls(ok_calls[s], c, user_input[s])]
    /\ UNCHANGED <<entries, self, context, user_input, submitted, options_flow>>

(* async_set_unique_id completes; the abort check and line 186 follow
   without another await *)
FeedResume(s) ==
    /\ pc[s] = "feed_uid"
    /\ pc' = [pc EXCEPT ![s] = "idle"]
    /\ LET unique_id == user_input[s][CONF_STATION]
           res == FeedEntry(call[s], user_input[s]) IN
       /\ context' = [context EXCEPT ![s] = [unique_id |-> unique_id]]
       /\ IF UniqueIdConfigured(unique_id, entries)
          THEN /\ Finish(s, Abort("already_configured"))
               /\ UNCHANGED entries
          ELSE /\ Finish(s, res)
               /\ entries' = IF res.type = "create_entry"
                             THEN Append(entries, ConfigEntry(unique_id, res))
                             ELSE entries
    /\ UNCHANGED <<self, user_input, submitted, call>>
    /\ UNCHANGED <<ok_calls, options_flow>>

----------------------------------------------------------------------------
(* the host discards a finished flow; the slot holds the next wizard session *)
Discard(s) ==
    /\ Idle(s)
    /\ Finished(s)
    /\ self' = [self EXCEPT ![s] = EmptyDict]
    /\ context' = [context EXCEPT ![s] = EmptyDict]
    /\ cur_step' = [cur_step EXCEPT ![s] = NoResult]
    /\ result' = [result EXCEPT ![s] = NoResult]
    /\ user_input' = [user_input EXCEPT ![s] = EmptyDict]
    /\ submitted' = [submitted EXCEPT ![s] = EmptyDict]
    /\ call' = [call EXCEPT ![s] = NoCall]
    /\ ok_calls' = [ok_calls EXCEPT ![s] = {}]
    /\ UNCHANGED <<entries, pc, options_flow>>

----------------------------------------------------------------------------
(* OptionsFlow *)

(* dict.get(k, default) *)
Get(d, k, default) == IF k \in DOMAIN d THEN d[k] ELSE default

OptionsForm_AlwaysDefault(options) ==
    [type |-> "form", step_id |-> "init",
     defaults |-> Put(EmptyDict, CONF_UPDATE_INTERVAL, DEFAULT_UPDATE_INTERVAL),
     required |-> {CONF_API_TOKEN},
     errors |-> EmptyDict]

(* options_schema and async_show_form(step_id="init", ...) *)
OptionsForm(options) ==
    [type |-> "form", step_id |-> "init",
     defaults |-> Put(EmptyDict, CONF_UPDATE_INTERVAL,
                      Get(options, CONF_UPDATE_INTERVAL, DEFAULT_UPDATE_INTERVAL)),
     required |-> {CONF_API_TOKEN},
     errors |-> EmptyDict]

OptionsEntry_TokenOnly(ui) ==
    [type |-> "create_entry", title |-> "",
     data |-> Put(EmptyDict, CONF_API_TOKEN, ui[CONF_API_TOKEN])]

(* self.async_create_entry(title="", data=user_input) *)
OptionsEntry(ui) == [type |-> "create_entry", title |-> "", data |-> ui]

OptionsRaws ==
    {Put(EmptyDict, CONF_UPDATE_INTERVAL, i) : i \in Intervals}
    \cup {Put(EmptyDict, CONF_API_TOKEN, t) : t \in Tokens}
    \cup {Put(Put(EmptyDict, CONF_API_TOKEN, t), CONF_UPDATE_INTERVAL, i) :
             t \in Tokens, i \in Intervals}

(* the records an options flow can be opened on: one made on the Search
   path and one on the DirectFeed path, each with the options the wizard or
   an earlier options update stored, or with no interval stored *)
StoredOptions ==
    {Put(Put(EmptyDict, CONF_API_TOKEN, t), CONF_UPDATE_INTERVAL, i) :
        t \in OneToken, i \in Intervals}
    \cup {Put(EmptyDict, CONF_API_TOKEN, t) : t \in OneToken}

StoredEntries ==
    {<<[unique_id |-> "A1", title |-> "Paris Center", data |-> EmptyDict, options |-> o1],
       [unique_id |-> "5000", title |-> "5000", data |-> EmptyDict, options |-> o2]>> :
        o1 \in StoredOptions, o2 \in StoredOptions}

InitOptions ==
    /\ entries \in StoredEntries
    /\ self = [s \in Sessions |-> EmptyDict]
    /\ context = [s \in Sessions |-> EmptyDict]
    /\ cur_step = [s \in Sessions |-> NoResult]
    /\ result = [s \in Sessions |-> NoResult]
    /\ pc = [s \in Sessions |-> "idle"]
    /\ user_input = [s \in Sessions |-> EmptyDict]
    /\ submitted = [s \in Sessions |-> EmptyDict]
    /\ call = [s \in Sessions |-> NoCall]
    /\ ok_calls = [s \in Sessions |-> {}]
    /\ options_flow = NoOptionsFlow

WizardVars == <<self, context, cur_step, result, pc, user_input, submitted, call, ok_calls>>

(* async_get_options_flow(config_entry) and OptionsFlow.__init__ *)
OptionsOpen(i) ==
    /\ options_flow.config_entry = 0
    /\ i \in DOMAIN entries
    /\ options_flow' = [NoOptionsFlow EXCEPT !.config_entry = i]
    /\ UNCHANGED <<entries, WizardVars>>

(* async_step_init(None): the form is built from the entry's options *)
OptionsInit ==
    /\ options_flow.config_entry # 0
    /\ options_flow.result.type = "none"
    /\ LET form == OptionsForm(entries[options_flow.config_entry].options) IN
       options_flow' = [options_flow EXCEPT !.form = form, !.result = form]
    /\ UNCHANGED <<entries, WizardVars>>

(* async_step_init(user_input); the host rejects data that lacks a required
   key, and stores the data of the result as the options of the entry *)
OptionsSubmit(raw) ==
    /\ options_flow.form.type = "form"
    /\ options_flow.result.type # "create_entry"
    /\ IF ~(options_flow.form.required \subseteq DOMAIN raw)
       THEN /\ options_flow' = [options_flow EXCEPT !.result = InvalidData,
                                                     !.submitted = raw]
            /\ UNCHANGED entries
       ELSE LET res == OptionsEntry(ApplyDefaults(options_flow.form, raw)) IN
            /\ options_flow' = [options_flow EXCEPT !.result = res, !.submitted = raw]
            /\ entries' = [entries EXCEPT ![options_flow.config_entry].options = res.data]
    /\ UNCHANGED WizardVars

(* the host discards the finished options flow *)
OptionsClose ==
    /\ options_flow.result.type = "create_entry"
    /\ options_flow' = NoOptionsFlow
    /\ UNCHANGED <<entries, WizardVars>>

NextOptions ==
    \/ \E i \in 1..2 : OptionsOpen(i)
    \/ OptionsInit
    \/ \E raw \in OptionsRaws : OptionsSubmit(raw)
    \/ OptionsClose

SpecOptions == InitOptions /\ [][NextOptions]_vars

UserRaws == {EmptyDict} \cup {Put(EmptyDict, FLOW_TYPE, c) : c \in FlowChoices}

(* one wizard session at a time, full input sets *)
Next ==
    \E s \in OneSession :
        \/ StartFlow(s)
        \/ \E raw \in UserRaws : StepUser(s, raw)
        \/ \E raw \in SearchRaws(Tokens, Intervals) : SubmitSearch(s, raw)
        \/ \E c \in SearchOutcomes(Names, MaxFound) : SearchReturn(s, c)
        \/ \E u \in StationIds : SubmitPick(s, u)
        \/ PickResume(s)
        \/ \E raw \in FeedRaws(Tokens, Intervals) : SubmitFeed(s, raw)
        \/ \E c \in FeedOutcomes : FeedReturn(s, c)
        \/ FeedResume(s)
        \/ Discard(s)

Spec == Init /\ [][Next]_vars

(* two wizard sessions interleaved at their awaits *)
NextInterleaved ==
    \E s \in Sessions :
        \/ StartFlow(s)
        \/ \E raw \in UserRaws : StepUser(s, raw)
        \/ \E raw \in SearchRaws(OneToken, NoInterval) : SubmitSearch(s, raw)
        \/ \E c \in SearchOutcomes(OneName, 1) : SearchReturn(s, c)
        \/ \E u \in StationIds : SubmitPick(s, u)
        \/ PickResume(s)
        \/ \E raw \in FeedRaws(OneToken, NoInterval) : SubmitFeed(s, raw)
        \/ \E c \in FeedOutcomes : FeedReturn(s, c)
        \/ FeedResume(s)
        \/ Discard(s)

SpecInterleaved == Init /\ [][NextInterleaved]_vars

TypeOK == \A s \in Sessions : pc[s] \in {"idle", "search", "pick_uid", "feed", "feed_uid"}

----------------------------------------------------------------------------
(* Properties *)

Options(t, i) == [api_token |-> t, update_interval |-> i]

HasEntry(uid) == \E i \in DOMAIN entries : entries[i].unique_id = uid

(* the interval of a submission: the value typed in, or the default of the
   form the submission was made on *)
SubmittedInterval(s) ==
    IF CONF_UPDATE_INTERVAL \in DOMAIN submitted[s]
    THEN submitted[s][CONF_UPDATE_INTERVAL]
    ELSE cur_step[s].defaults[CONF_UPDATE_INTERVAL]

(* C1: in every reachable state of interleaved wizard sessions, no two
   persisted configuration records have the same unique_id *)
C1_UniqueIds ==
    \A i, j \in DOMAIN entries : i # j => entries[i].unique_id # entries[j].unique_id

(* two sessions submitted the same station id; one created the record, the
   other was aborted *)
C1_Witness ==
    \E s, t \in Sessions :
        /\ s # t
        /\ result[s].type = "create_entry"
        /\ result[t] = Abort("already_configured")
        /\ context[s] = context[t]
        /\ HasEntry(context[s].unique_id)

(* C2: a step that completes with a station id that is already the unique_id
   of a record (in PickStation, or in DirectFeed after a non-empty feed) ends
   in abort "already_configured" and leaves the records unchanged *)
C2_DuplicateAborts ==
    [][\A s \in Sessions :
        ( /\ pc[s] \in {"pick_uid", "feed_uid"}
          /\ pc'[s] = "idle"
          /\ HasEntry(submitted[s][CONF_STATION])
          /\ (pc[s] = "feed_uid" => call[s].station # EmptyDict) )
        => /\ result'[s] = Abort("already_configured")
           /\ entries' = entries]_vars

(* one session aborted as a duplicate in PickStation, another in DirectFeed *)
C2_Witness ==
    \E s, t \in Sessions :
        /\ result[s] = Abort("already_configured")
        /\ cur_step[s].step_id = "pick_station"
        /\ result[t] = Abort("already_configured")
        /\ cur_step[t].step_id = "user_feed"
        /\ call[t].kind = "return"
        /\ call[t].station # EmptyDict
        /\ Len(entries) = 1

(* C3: when client.feed fails with OverQuota or InvalidToken the step result
   is the DirectFeed form with the matching error on the token field; no
   record is created and the flow stays in DirectFeed *)
C3_FeedTokenErrorRedisplays ==
    [][\A s \in Sessions :
        (pc[s] = "feed" /\ call'[s].kind \in {"OverQuota", "InvalidToken"})
        => /\ result'[s].type = "form"
           /\ result'[s].step_id = "user_feed"
           /\ result'[s].errors =
                Put(EmptyDict, CONF_API_TOKEN,
                    IF call'[s].kind = "OverQuota" THEN "api_over_quota"
                    ELSE "api_token_invalid")
           /\ cur_step'[s].step_id = "user_feed"
           /\ entries' = entries]_vars

(* C4: when client.feed returns an empty feed the step result is the
   DirectFeed form with "no_station_feed_found" on the station field; no
   unique id is registered, there is no abort and no record is created *)
C4_EmptyFeedRedisplays ==
    [][\A s \in Sessions :
        ( /\ pc[s] \in {"feed", "feed_uid"}
          /\ pc'[s] = "idle"
          /\ call'[s].kind = "return"
          /\ call'[s].station = EmptyDict )
        => /\ result'[s].type = "form"
           /\ result'[s].step_id = "user_feed"
           /\ result'[s].errors = Put(EmptyDict, CONF_STATION, "no_station_feed_found")
           /\ context'[s] = EmptyDict
           /\ cur_step'[s].step_id = "user_feed"
           /\ entries' = entries]_vars

(* C5: when client.feed raises anything other than OverQuota and
   InvalidToken the flow aborts with reason "unknown": the step is over, the
   flow is finished, no form is shown again and no record is created *)
C5_FeedUnknownAborts ==
    [][\A s \in Sessions :
        (pc[s] = "feed" /\ call'[s].kind = "Exception")
        => /\ result'[s] = Abort("unknown")
           /\ pc'[s] = "idle"
           /\ cur_step'[s] = cur_step[s]
           /\ entries' = entries]_vars

C5_Witness ==
    \E s \in Sessions :
        /\ call[s].kind = "Exception"
        /\ cur_step[s].step_id = "user_feed"
        /\ result[s] = Abort("unknown")

(* C6: a DirectFeed submission (token T, station S, interval I, 900 when left
   out) with a non-empty feed and S not yet configured creates exactly one
   record: unique_id S, title the feed's uid, data {}, options {T, I}, and
   the flow ends in success *)
C6_FeedCreatesEntry ==
    [][\A s \in Sessions :
        ( /\ pc[s] = "feed_uid"
          /\ pc'[s] = "idle"
          /\ call[s].station # EmptyDict
          /\ ~HasEntry(submitted[s][CONF_STATION]) )
        => LET I == IF CONF_UPDATE_INTERVAL \in DOMAIN submitted[s]
                    THEN submitted[s][CONF_UPDATE_INTERVAL] ELSE 900
               opts == Options(submitted[s][CONF_API_TOKEN], I) IN
           /\ entries' = Append(entries,
                 [unique_id |-> submitted[s][CONF_STATION],
                  title |-> call[s].station.uid,
                  data |-> EmptyDict,
                  options |-> opts])
           /\ result'[s] = CreateEntry(call[s].station.uid, EmptyDict, opts)]_vars

(* a record was created from a submission that left the interval out, with a
   feed whose uid differs from the submitted station id *)
C6_Witness ==
    \E s \in Sessions :
        /\ result[s].type = "create_entry"
        /\ cur_step[s].step_id = "user_feed"
        /\ CONF_UPDATE_INTERVAL \notin DOMAIN submitted[s]
        /\ result[s].options[CONF_UPDATE_INTERVAL] = 900
        /\ result[s].title # submitted[s][CONF_STATION]
        /\ HasEntry(submitted[s][CONF_STATION])

(* C7: when client.search fails with OverQuota (InvalidToken) the step result
   is the Search form whose only error is "api_over_quota"
   ("api_token_invalid") on the token field and whose token, keyword and
   interval defaults are the values of the failed submission; the flow stays
   in Search and no record is created *)
C7_SearchTokenErrorRedisplays ==
    [][\A s \in Sessions :
        (pc[s] = "search" /\ call'[s].kind \in {"OverQuota", "InvalidToken"})
        => /\ result'[s] =
                Form("user_search",
                     [api_token |-> submitted[s][CONF_API_TOKEN],
                      keyword |-> submitted[s][CONF_KEYWORD],
                      update_interval |-> SubmittedInterval(s)],
                     EmptyDict,
                     Put(EmptyDict, CONF_API_TOKEN,
                         IF call'[s].kind = "OverQuota" THEN "api_over_quota"
                         ELSE "api_token_invalid"))
           /\ cur_step'[s] = result'[s]
           /\ pc'[s] = "idle"
           /\ entries' = entries]_vars

(* the form is shown again after OverQuota with the submitted 600 seconds *)
C7_Witness ==
    \E s \in Sessions :
        /\ call[s].kind = "OverQuota"
        /\ result[s].type = "form"
        /\ result[s].step_id = "user_search"
        /\ result[s].errors[CONF_API_TOKEN] = "api_over_quota"
        /\ result[s].defaults[CONF_UPDATE_INTERVAL] = 600
        /\ result[s].defaults[CONF_API_TOKEN] = "T2"

(* C8: when client.search returns an empty result the step result is the
   Search form with "no_matching_stations_found" on the keyword field and the
   submitted values as defaults; the flow does not move to PickStation *)
C8_SearchEmptyRedisplays ==
    [][\A s \in Sessions :
        (pc[s] = "search" /\ call'[s].kind = "return" /\ call'[s].found = <<>>)
        => /\ result'[s].type = "form"
           /\ result'[s].step_id = "user_search"
           /\ result'[s].errors = Put(EmptyDict, CONF_KEYWORD, "no_matching_stations_found")
           /\ result'[s].defaults =
                [api_token |-> submitted[s][CONF_API_TOKEN],
                 keyword |-> submitted[s][CONF_KEYWORD],
                 update_interval |-> SubmittedInterval(s)]
           /\ cur_step'[s].step_id = "user_search"]_vars

C8_Witness ==
    \E s \in Sessions :
        /\ call[s].kind = "return"
        /\ "found" \in DOMAIN call[s]
        /\ call[s].found = <<>>
        /\ result[s].type = "form"
        /\ result[s].step_id = "user_search"
        /\ CONF_KEYWORD \in DOMAIN result[s].errors

(* C9: when client.search raises anything other than OverQuota and
   InvalidToken the step result is the Search form with the base-level error
   "unknown"; the step does not fail and the flow stays in Search *)
C9_SearchUnknownRedisplays ==
    [][\A s \in Sessions :
        (pc[s] = "search" /\ call'[s].kind = "Exception")
        => /\ result'[s].type = "form"
           /\ result'[s].step_id = "user_search"
           /\ result'[s].errors = Put(EmptyDict, "base", "unknown")
           /\ cur_step'[s].step_id = "user_search"]_vars

(* the stations of the search that has just returned to session s *)
Returned(s) == call[s].kind = "return" /\ "found" \in DOMAIN call[s] /\ call[s].found # <<>>

(* C10 as stated: after a search that returned N > 0 stations the
   PickStation form offers exactly N entries, one per returned station,
   keyed by its id and labelled with its name *)
C10_ExactlyNEntries ==
    \A s \in Sessions :
        Returned(s)
        => LET found == call[s].found IN
           /\ result[s].type = "form"
           /\ result[s].step_id = "pick_station"
           /\ Cardinality(DOMAIN result[s].choices) = Len(found)
           /\ \A i \in DOMAIN found :
                /\ found[i].uid \in DOMAIN result[s].choices
                /\ result[s].choices[found[i].uid] = found[i].station.name

(* C10 amended: the PickStation form offers exactly one entry per distinct
   returned station id, labelled with the name of the last returned station
   with that id; it has exactly N entries when the N ids are distinct *)
C10_OneEntryPerId ==
    \A s \in Sessions :
        Returned(s)
        => LET found == call[s].found
               ids == {found[i].uid : i \in DOMAIN found} IN
           /\ result[s].type = "form"
           /\ result[s].step_id = "pick_station"
           /\ DOMAIN result[s].choices = ids
           /\ \A i \in DOMAIN found :
                (\A j \in DOMAIN found : j > i => found[j].uid # found[i].uid)
                => result[s].choices[found[i].uid] = found[i].station.name
           /\ (\A i, j \in DOMAIN found : i # j => found[i].uid # found[j].uid)
                => Cardinality(DOMAIN result[s].choices) = Len(found)

(* a search returned the same station id twice under two names *)
C10_Witness ==
    \E s \in Sessions :
        /\ Returned(s)
        /\ Len(call[s].found) = 2
        /\ call[s].found[1].uid = call[s].found[2].uid
        /\ call[s].found[1].station.name # call[s].found[2].station.name
        /\ result[s].step_id = "pick_station"
        /\ Cardinality(DOMAIN result[s].choices) = 1

(* C11: a Search submission (T, K, I) with a non-empty result stores T, I
   and the id->name mapping in the session and shows PickStation; the session
   keeps them while PickStation is shown; submitting there an id U that is
   not configured creates exactly one record with unique_id U, title the
   name mapped to U, data {} and options {T, I}, and ends in success *)
C11_SearchThenPickCreatesEntry ==
    [][\A s \in Sessions :
        /\ (pc[s] = "search" /\ call'[s].kind = "return" /\ call'[s].found # <<>>)
           => LET found == call'[s].found IN
              /\ self'[s]._api_token = submitted[s][CONF_API_TOKEN]
              /\ self'[s]._update_interval = SubmittedInterval(s)
              /\ DOMAIN self'[s]._stations = {found[i].uid : i \in DOMAIN found}
              /\ \A i \in DOMAIN found :
                   (\A j \in DOMAIN found : j > i => found[j].uid # found[i].uid)
                   => self'[s]._stations[found[i].uid] = found[i].station.name
              /\ cur_step'[s].step_id = "pick_station"
              /\ cur_step'[s].choices = self'[s]._stations
              /\ entries' = entries
        /\ ( /\ cur_step[s].type = "form"
             /\ cur_step[s].step_id = "pick_station"
             /\ result'[s].type # "none" )
           => self'[s] = self[s]
        /\ ( /\ pc[s] = "pick_uid"
             /\ pc'[s] = "idle"
             /\ ~HasEntry(submitted[s][CONF_STATION]) )
           => LET U == submitted[s][CONF_STATION]
                  opts == Options(self[s]._api_token, self[s]._update_interval) IN
              /\ entries' = Append(entries,
                    [unique_id |-> U, title |-> self[s]._stations[U],
                     data |-> EmptyDict, options |-> opts])
              /\ result'[s] = CreateEntry(self[s]._stations[U], EmptyDict, opts)]_vars

(* a record was created on the Search path with the session's token, a
   600 second interval and the station's name as title *)
C11_Witness ==
    \E s \in Sessions :
        /\ result[s].type = "create_entry"
        /\ cur_step[s].step_id = "pick_station"
        /\ result[s].title = self[s]._stations[context[s].unique_id]
        /\ result[s].options = Options(self[s]._api_token, 600)
        /\ Len(entries) = 2
        /\ entries[2].title = result[s].title

(* C12: submitting Entry with the "search" choice shows the empty Search
   form, with the "feed" choice the empty DirectFeed form, both without a
   client call; any other value leaves the flow in Entry *)
C12_EntryRoutes ==
    [][\A s \in Sessions :
        ( /\ cur_step[s].type = "form"
          /\ cur_step[s].step_id = "user"
          /\ FLOW_TYPE \in DOMAIN submitted'[s] )
        => LET v == submitted'[s][FLOW_TYPE] IN
           /\ v = FLOW_SEARCH
              => /\ result'[s] = Form("user_search", [update_interval |-> 900],
                                      EmptyDict, EmptyDict)
                 /\ cur_step'[s] = result'[s]
           /\ v = FLOW_FEED
              => /\ result'[s] = Form("user_feed", [update_interval |-> 900],
                                      EmptyDict, EmptyDict)
                 /\ cur_step'[s] = result'[s]
           /\ v \notin {FLOW_SEARCH, FLOW_FEED}
              => /\ cur_step'[s] = cur_step[s]
                 /\ result'[s].type # "form"
           /\ pc'[s] = "idle"
           /\ call'[s] = NoCall]_vars

(* one session chose "search" and is in Search, another chose "feed" and is
   in DirectFeed *)
C12_Witness ==
    \E s, t \in Sessions :
        /\ submitted[s] = Put(EmptyDict, FLOW_TYPE, FLOW_SEARCH)
        /\ cur_step[s].step_id = "user_search"
        /\ submitted[t] = Put(EmptyDict, FLOW_TYPE, FLOW_FEED)
        /\ cur_step[t].step_id = "user_feed"

(* the client call of a submission failed or returned nothing *)
Failure(c) ==
    \/ c.kind \in {"OverQuota", "InvalidToken", "Exception"}
    \/ /\ c.kind = "return"
       /\ \/ ("found" \in DOMAIN c /\ c.found = <<>>)
          \/ ("station" \in DOMAIN c /\ c.station = EmptyDict)

(* C13: in Search and DirectFeed every failed submission ends its step in a
   form carrying an error or in an abort, never in a record and never in an
   unhandled error *)
C13_FailuresSurface ==
    [][\A s \in Sessions :
        ( /\ pc[s] \in {"search", "feed", "feed_uid"}
          /\ pc'[s] = "idle"
          /\ Failure(call'[s]) )
        => /\ \/ (result'[s].type = "form" /\ result'[s].errors # EmptyDict)
              \/ result'[s].type = "abort"
           /\ entries' = entries]_vars

(* C14: submitting the Options form with a token (and an interval) ends the
   options flow with a result of empty title whose data is the submitted
   values; no client call is made, no form is shown again, and no record's
   unique_id or title changes *)
C14_OptionsSubmitUpdates ==
    [][( /\ options_flow.form.type = "form"
         /\ options_flow.result.type # "create_entry"
         /\ options_flow' # options_flow
         /\ CONF_API_TOKEN \in DOMAIN options_flow'.submitted )
       => LET raw == options_flow'.submitted
              data == [api_token |-> raw[CONF_API_TOKEN],
                       update_interval |->
                          IF CONF_UPDATE_INTERVAL \in DOMAIN raw
                          THEN raw[CONF_UPDATE_INTERVAL]
                          ELSE options_flow.form.defaults[CONF_UPDATE_INTERVAL]] IN
          /\ options_flow'.result = [type |-> "create_entry", title |-> "", data |-> data]
          /\ call' = call
          /\ pc' = pc
          /\ Len(entries') = Len(entries)
          /\ \A k \in DOMAIN entries :
                /\ entries'[k].unique_id = entries[k].unique_id
                /\ entries'[k].title = entries[k].title
                /\ entries'[k].options =
                      IF k = options_flow.config_entry THEN data
                      ELSE entries[k].options]_vars

(* the options of the Search-path record were replaced by token T2 and 600 s *)
C14_Witness ==
    /\ options_flow.config_entry = 1
    /\ options_flow.result.type = "create_entry"
    /\ options_flow.result.title = ""
    /\ options_flow.result.data = Options("T2", 600)
    /\ entries[1].options = Options("T2", 600)
    /\ entries[1].title = "Paris Center"

(* C15: opening the Options form without a submission shows a form whose
   only default is the interval stored in the record's options, or 900 when
   none is stored, with the token required; no record is changed *)
C15_OptionsFormDefaults ==
    [][(options_flow.result.type = "none" /\ options_flow'.result.type = "form")
       => LET stored == entries[options_flow.config_entry].options IN
          /\ options_flow'.result.step_id = "init"
          /\ options_flow'.result.defaults =
                [update_interval |->
                    IF CONF_UPDATE_INTERVAL \in DOMAIN stored
                    THEN stored[CONF_UPDATE_INTERVAL] ELSE 900]
          /\ options_flow'.result.required = {CONF_API_TOKEN}
          /\ options_flow'.result.errors = EmptyDict
          /\ entries' = entries]_vars

(* the form is shown on a record that stores 600 seconds *)
C15_Witness ==
    /\ options_flow.config_entry # 0
    /\ options_flow.result.type = "form"
    /\ options_flow.result.defaults[CONF_UPDATE_INTERVAL] = 600
    /\ entries[options_flow.config_entry].options[CONF_UPDATE_INTERVAL] = 600

(* C16: a Search submission that ends in an error leaves the session's
   attributes unchanged, and they are still unset *)
C16_FailedSearchKeepsSession ==
    [][\A s \in Sessions :
        (pc[s] = "search" /\ pc'[s] = "idle" /\ Failure(call'[s]))
        => /\ self'[s] = self[s]
           /\ self'[s] = EmptyDict]_vars

(* a search failed with InvalidToken and the session holds nothing *)
C16_Witness ==
    \E s \in Sessions :
        /\ call[s].kind = "InvalidToken"
        /\ pc[s] = "idle"
        /\ cur_step[s].step_id = "user_search"
        /\ submitted[s][CONF_API_TOKEN] = "T2"
        /\ self[s] = EmptyDict

(* C17: a step that creates a record is the step of a session one of whose
   client calls, made with the token stored in the record's options, returned
   a non-empty result *)
C17_EntryFollowsGoodCall ==
    [][Len(entries') > Len(entries)
       => \E s \in Sessions :
            /\ pc[s] \in {"pick_uid", "feed_uid"}
            /\ pc'[s] = "idle"
            /\ entries'[Len(entries')].options[CONF_API_TOKEN] \in ok_calls[s]]_vars

(* a record with token T2 was created after an earlier record with T1 *)
C17_Witness ==
    \E s \in Sessions :
        /\ Len(entries) = 2
        /\ entries[1].options[CONF_API_TOKEN] = "T1"
        /\ entries[2].options[CONF_API_TOKEN] = "T2"
        /\ result[s].type = "create_entry"
        /\ ok_calls[s] = {"T2"}

====
